---- MODULE Spec2Model ----
(***************************************************************************)
(* Authenticated HTTP access layer of the UiPath MCP server:                *)
(*   auth.py    TokenCache, Cloud / OnPrem / PAT get_token                  *)
(*   client.py  _is_retryable, UiPathClient._request (tenacity retry loop)  *)
(*                                                                         *)
(* Tasks are asyncio coroutines of one process.  A step of a task is the    *)
(* code between two awaits; awaits are the network calls, the sleeps and a  *)
(* contended lock acquisition.                                              *)
(***************************************************************************)
EXTENDS Integers, Sequences, FiniteSets, TLC

\* ---------------------------------------------------------------- bounds
NumCallers == 2
MaxNow == 1
MaxAttempts == 2
MaxClock == 4
MaxPathLen == 2
MaxPageSize == 3
MaxTotal == 7
MaxOps == 4
MaxJobs == 2
MaxPolls == 2

\* ------------------------------------------------------ program constants
RefreshBuffer == 60
DefaultMaxAttempts == 3
DefaultExpiresIn == 3600
OnPremExpiresIn == 1800
EmptyToken == 0
PatToken == 1000
RetryMinWait == 1
DefaultPageSize == 100
DefaultMaxItems == 10000

Callers == 1..NumCallers
AuthModes == {"cloud", "on_prem", "pat"}

\* expires_in values the identity server answers with ("absent" is the default)
ExpiresInValues == {30, 60, 61, DefaultExpiresIn}

VARIABLES
  authMode,     \* settings.auth_mode
  retryMax,     \* settings.retry_max_attempts
  now,          \* time.monotonic()
  cache,        \* _token_cache: access_token, expires_at
  lockHolder,   \* _token_cache._lock: the task holding it, 0 when free
  waiters,      \* _token_cache._lock: FIFO of tasks waiting in acquire()
  task,         \* per task: position, attempt, token in use, result, ...
  nextTok,      \* the next token the identity endpoint will issue
  postCalls,    \* number of credential-acquisition requests issued so far
  revoked,      \* tokens that were in the cache when a 401 cleared it
  after401,     \* "none", or since a 401 cleared the cache no credential request
                \* was issued: "in_flight" if one was in flight then, else "idle"
  lastSet,      \* the arguments of the last TokenCache.set since the last clear
  scope,        \* the folder settings and the last _folder_headers call
  pager,        \* one paginate / collect_all call and the collection it reads
  odata,        \* one ODataParams builder, the calls made on it, what build returned
  tool          \* one run of a tool handler and the client calls it made

vars == <<authMode, retryMax, now, cache, lockHolder, waiters, task, nextTok,
          postCalls, revoked, after401, lastSet, scope, pager, odata, tool>>

\* ------------------------------------------------------------- TokenCache
\* is_valid with the boundary instant counted as valid
IsValid_Inclusive(ch, t) ==
  ch.access_token # EmptyToken /\ t <= ch.expires_at - RefreshBuffer

\* TokenCache.is_valid at time t
IsValid(ch, t) ==
  ch.access_token # EmptyToken /\ t < ch.expires_at - RefreshBuffer

\* TokenCache.set(token, expires_in) at time t
CacheSet(token, expires_in, t) ==
  [access_token |-> token, expires_at |-> t + expires_in]

\* TokenCache.clear()
CacheClear == [access_token |-> EmptyToken, expires_at |-> 0]

\* ------------------------------------------------------------ task records
NoResponse == [exc |-> "none", status |-> 0]

\* what a call returned or raised; status 0 is None, received is the HTTP
\* status of the response the error was built from (0: no response)
Result(kind, tok, status, code, msg, received) ==
  [kind |-> kind, tok |-> tok, status |-> status, code |-> code, msg |-> msg,
   received |-> received, detail |-> "None", endpoint |-> "None"]

NoResult == Result("none", EmptyToken, 0, "", "", 0)

\* bookkeeping of one get_token call: how it returned, whether its fast path
\* saw a stale cache, whether every other call was then still running, and the
\* number of tokens issued when it saw the stale cache
NoTrack ==
  [how |-> "none", sawStale |-> FALSE, concurrent |-> FALSE, minted |-> 0,
   after |-> FALSE]

IdleTask ==
  [pc |-> "idle", call |-> "none", attempt |-> 0, tok |-> EmptyToken,
   httpCalls |-> 0, first |-> NoResponse, last |-> NoResponse, same |-> TRUE,
   g |-> NoTrack, result |-> NoResult, hdr |-> "none", t429 |-> 0]

\* the call of task t ends with result r
Finish(t, r) ==
  [t EXCEPT !.pc = "done", !.result = r, !.tok = r.tok, !.last = NoResponse,
            !.hdr = "none", !.t429 = 0]

AnyDone == \E c \in Callers : task[c].pc = "done"

\* ------------------------------------------------------------ retry policy
\* _is_retryable(exc)
IsRetryable(e) ==
  \/ e.exc = "TimeoutException"
  \/ e.exc = "ConnectError"
  \/ e.exc = "HTTPStatusError" /\ e.status \in {429, 502, 503, 504}

\* an exception leaving the retry loop unchanged (reraise=True re-raises the
\* attempt's own exception, also when the attempts are used up)
RawError(e) == Result(e.exc, EmptyToken, e.status, "", "", e.status)

\* a stop condition that allows one attempt more
ShouldStop_OneMore(t) == t.attempt >= retryMax + 1

\* stop_after_attempt(retry_max_attempts)
ShouldStop(t) == t.attempt >= retryMax

\* AsyncRetrying after an attempt raised e and the retry predicate said yes
AttemptFailed(t, e) ==
  IF ShouldStop(t)
    THEN Finish(t, RawError(e))
    ELSE [t EXCEPT !.pc = "backoff"]

\* AsyncRetrying after an attempt raised e: retry_if_exception(_is_retryable)
RaiseInAttempt(t, e) ==
  IF IsRetryable(e)
    THEN AttemptFailed(t, e)
    ELSE Finish(t, RawError(e))

\* what follows get_token: its caller is a test-like direct call, or
\* _auth_headers inside an attempt of _request, which goes on to issue the call
AfterGetToken(t, res) ==
  IF t.call = "get_token"
    THEN Finish(t, res)
    ELSE LET u == [t EXCEPT !.g = NoTrack]
         IN IF res.kind = "token"
              THEN [u EXCEPT !.pc = "send", !.tok = res.tok, !.httpCalls = @ + 1]
              ELSE IF res.kind = "UiPathAuthError"
                THEN Finish(u, res)
                ELSE RaiseInAttempt(u, [exc |-> res.kind, status |-> 0])

TokenResult(tok) == Result("token", tok, 0, "", "", 0)

\* a static-token get_token that hands out whatever the shared cache holds
PATGetToken_FromCache == TokenResult(cache.access_token)

\* PATAuthStrategy.get_token: the configured token, nothing else
PATGetToken == TokenResult(PatToken)

\* ------------------------------------------------------------------ lock
\* a lock that excludes nobody
LockFree_Always == TRUE

\* asyncio.Lock.acquire takes the lock at once when it is free with no waiter
LockFree == lockHolder = 0 /\ waiters = <<>>

\* an exit of the critical section that forgets the lock
ReleaseLock_Keep == UNCHANGED <<lockHolder, waiters>>

\* asyncio.Lock.release: the first waiter is woken and owns the lock next
ReleaseLock ==
  IF waiters = <<>>
    THEN lockHolder' = 0 /\ waiters' = waiters
    ELSE lockHolder' = Head(waiters) /\ waiters' = Tail(waiters)

\* ------------------------------------------------------------- get_token
\* get_token without its fast path
TakesFastPath_Never == FALSE

\* the fast path test of get_token (auth.py 106 / 169)
TakesFastPath == IsValid(cache, now)

\* a re-check that trusts whatever the cache holds
RecheckValid_Always == TRUE

\* the re-check under the lock (auth.py 111 / 173)
RecheckValid == IsValid(cache, now)

\* the body of `async with self._cache._lock`, up to the await of client.post
InsideLock(c, t) ==
  IF RecheckValid
    THEN /\ task' = [task EXCEPT ![c] =
                 AfterGetToken([t EXCEPT !.g.how = "recheck"],
                               TokenResult(cache.access_token))]
         /\ ReleaseLock
         /\ UNCHANGED <<postCalls, after401>>
    ELSE /\ task' = [task EXCEPT ![c] = [t EXCEPT !.pc = "post"]]
         /\ lockHolder' = c
         /\ UNCHANGED waiters
         /\ postCalls' = postCalls + 1
         /\ after401' = "none"

\* get_token entered by task c whose record is t, up to its first await
EnterGetToken(c, t) ==
  /\ UNCHANGED <<scope, pager, odata, tool, authMode, retryMax, now, cache, nextTok, revoked, lastSet>>
  /\ IF authMode = "pat"
       THEN /\ task' = [task EXCEPT ![c] =
                    AfterGetToken([t EXCEPT !.g.how = "pat"], PATGetToken)]
            /\ UNCHANGED <<lockHolder, waiters, postCalls, after401>>
       ELSE IF TakesFastPath
         THEN /\ task' = [task EXCEPT ![c] =
                      AfterGetToken([t EXCEPT !.g.how = "fast"],
                                    TokenResult(cache.access_token))]
              /\ UNCHANGED <<lockHolder, waiters, postCalls, after401>>
         ELSE LET t2 == [t EXCEPT !.g.sawStale = TRUE, !.g.concurrent = ~AnyDone,
                                  !.g.minted = nextTok,
                                  !.g.after = (after401 # "none")]
              IN IF LockFree
                   THEN InsideLock(c, t2)
                   ELSE /\ task' = [task EXCEPT ![c] = [t2 EXCEPT !.pc = "lock_wait"]]
                        /\ waiters' = Append(waiters, c)
                        /\ UNCHANGED <<lockHolder, postCalls, after401>>

\* tasks are numbered in the order they start (they run the same code)
MayStart(c) == task[c].pc = "idle" /\ \A d \in Callers : d < c => task[d].pc # "idle"

\* a direct call of get_token by task c
StartGetToken(c) ==
  /\ MayStart(c)
  /\ EnterGetToken(c, [task[c] EXCEPT !.call = "get_token"])

\* a waiter of the lock is resumed owning it
LockAcquired(c) ==
  /\ task[c].pc = "lock_wait"
  /\ lockHolder = c
  /\ InsideLock(c, task[c])
  /\ UNCHANGED <<scope, pager, odata, tool, authMode, retryMax, now, cache, nextTok, revoked, lastSet>>

\* the answers of the authentication endpoint the model draws from
AuthOutcomes ==
  {[kind |-> "ok", status |-> 200, has_e |-> TRUE, e |-> x] : x \in ExpiresInValues}
  \cup {[kind |-> "ok", status |-> 200, has_e |-> FALSE, e |-> 0]}
  \cup {[kind |-> k, status |-> 200, has_e |-> FALSE, e |-> 0] :
          k \in {"empty_token", "success_false", "malformed"}}
  \cup {[kind |-> "http_error", status |-> s, has_e |-> FALSE, e |-> 0] :
          s \in {401, 500}}
  \cup {[kind |-> k, status |-> 0, has_e |-> FALSE, e |-> 0] :
          k \in {"ConnectError", "TimeoutException", "ReadError"}}

NetworkErrors == {"ConnectError", "TimeoutException", "ReadError"}

AuthError(status, received) ==
  Result("UiPathAuthError", EmptyToken, status, "", "", received)

\* CloudAuthStrategy.get_token from the answer of client.post on:
\* <<cache after, result, token issued>>
CloudRespond(out) ==
  CASE out.kind = "ok" ->
         LET e == IF out.has_e THEN out.e ELSE DefaultExpiresIn
         IN <<CacheSet(nextTok, e, now), TokenResult(nextTok), TRUE>>
    [] out.kind = "empty_token" ->
         \* a 2xx body whose access_token is ""
         <<CacheSet(EmptyToken, DefaultExpiresIn, now), TokenResult(EmptyToken), FALSE>>
    [] out.kind = "success_false" ->
         \* a 2xx body without access_token: data["access_token"] raises
         <<cache, Result("KeyError", EmptyToken, 0, "", "", out.status), FALSE>>
    [] out.kind = "malformed" ->
         \* json() raises; neither except clause matches
         <<cache, Result("ValueError", EmptyToken, 0, "", "", out.status), FALSE>>
    [] out.kind = "http_error" ->
         <<CacheClear, AuthError(out.status, out.status), FALSE>>
    [] OTHER ->
         <<CacheClear, AuthError(0, 0), FALSE>>

\* OnPremAuthStrategy.get_token from the answer of client.post on
OnPremRespond(out) ==
  CASE out.kind = "ok" ->
         <<CacheSet(nextTok, OnPremExpiresIn, now), TokenResult(nextTok), TRUE>>
    [] out.kind = "empty_token" ->
         <<CacheSet(EmptyToken, OnPremExpiresIn, now), TokenResult(EmptyToken), FALSE>>
    [] out.kind = "success_false" ->
         \* raised inside the try; only HTTPStatusError is caught
         <<cache, AuthError(0, out.status), FALSE>>
    [] out.kind = "malformed" ->
         <<cache, Result("ValueError", EmptyToken, 0, "", "", out.status), FALSE>>
    [] out.kind = "http_error" ->
         <<CacheClear, AuthError(out.status, out.status), FALSE>>
    [] OTHER ->
         \* httpx.RequestError is not caught by OnPremAuthStrategy
         <<cache, Result(out.kind, EmptyToken, 0, "", "", 0), FALSE>>

ProviderRespond(out) ==
  IF authMode = "cloud" THEN CloudRespond(out) ELSE OnPremRespond(out)

NoSet == [t0 |-> 0, e |-> 0, live |-> FALSE]

\* the instants the credential layer is observed at: the first ones, and the
\* first ones at which a token of either fixed lifetime issued at 0 is stale
TimeGrid ==
  (0..MaxNow)
  \cup {OnPremExpiresIn - RefreshBuffer + k : k \in 0..MaxNow}
  \cup {DefaultExpiresIn - RefreshBuffer + k : k \in 0..MaxNow}

\* time.monotonic() advances to a later instant of the grid
Elapse ==
  /\ \E t \in TimeGrid : t > now /\ now' = t
  /\ UNCHANGED <<scope, pager, odata, tool, authMode, retryMax, cache, lockHolder, waiters, task, nextTok,
                 postCalls, revoked, after401, lastSet>>

\* lastSet after the cache went from ch to ch2 at time t
TrackSet(ch2, e) ==
  IF ch2 = CacheClear THEN NoSet
  ELSE [t0 |-> now, e |-> e, live |-> TRUE]

\* the authentication endpoint answers task c, which holds the lock
AuthRespond(c, out) ==
  /\ task[c].pc = "post"
  /\ LET r == ProviderRespond(out)
     IN /\ cache' = r[1]
        /\ nextTok' = IF r[3] THEN nextTok + 1 ELSE nextTok
        /\ lastSet' = IF r[1] = cache THEN lastSet
                       ELSE TrackSet(r[1], r[1].expires_at - now)
        /\ task' = [task EXCEPT ![c] =
                AfterGetToken([task[c] EXCEPT !.g.how = "acquired"], r[2])]
  /\ ReleaseLock
  /\ UNCHANGED <<scope, pager, odata, tool, authMode, retryMax, now, postCalls, revoked, after401>>

\* time.monotonic() advances
Tick ==
  /\ now < MaxNow
  /\ now' = now + 1
  /\ UNCHANGED <<scope, pager, odata, tool, authMode, retryMax, cache, lockHolder, waiters, task, nextTok,
                 postCalls, revoked, after401, lastSet>>

\* ------------------------------------------------------- optional values
\* an int | None and a str | None: None has some = FALSE; a string is the
\* sequence of its characters
NoId == [some |-> FALSE, v |-> 0]

SomeId(n) == [some |-> TRUE, v |-> n]

NoStr == [some |-> FALSE, v |-> <<>>]

SomeStr(str) == [some |-> TRUE, v |-> str]

\* the truth value of a str | None: None and "" are false
Truthy(o) == o.some /\ o.v # <<>>

\* no folder header
NoHeaders == [OrganizationUnitId |-> NoStr, FolderPathEncoded |-> NoStr]

\* the folder settings with no default, before any _folder_headers call
NoScope ==
  [uipath_folder_id |-> NoId, uipath_folder_path |-> NoStr, called |-> FALSE,
   folder_id |-> NoId, folder_path |-> NoStr, headers |-> NoHeaders]

\* a list of consecutive items of the collection: items lo..hi, empty when
\* hi < lo
EmptyPage == [lo |-> 1, hi |-> 0]

\* no paginate / collect_all call
NoPager ==
  [pc |-> "idle", op |-> "none", total |-> 0, page_size |-> 1, max_items |-> NoId,
   skip |-> 0, collected |-> 0, fetches |-> 0, items |-> EmptyPage, pages |-> <<>>,
   results |-> <<>>, base |-> <<>>, sent |-> <<>>]

\* the builders: 1 is the ODataParams() under study
Builders == {1, 2}

\* a fresh ODataParams(): _params = {} (client.py 76-77), no call made yet
NoOData ==
  [params |-> [b \in Builders |-> <<>>], cur |-> 1, calls |-> <<>>, snaps |-> <<>>,
   ops |-> 0]

\* what a tool handler returned: nothing yet
NoOutput ==
  [kind |-> "none", error |-> "", message |-> "", total |-> 0, success |-> 0,
   results |-> <<>>, final_state |-> "", elapsed_seconds |-> 0]

\* no tool run
NoTool ==
  [pc |-> "idle", name |-> "none", process_name |-> "", folder_id |-> NoId,
   job_ids |-> <<>>, subs |-> <<>>, lookup |-> "none", releases |-> <<>>,
   calls |-> <<>>, exc |-> "none", out |-> NoOutput,
   timeout_seconds |-> 0, poll_interval_seconds |-> 0, elapsed |-> 0, polls |-> 0,
   sleeps |-> 0, state |-> "", waiting |-> TRUE,
   package_id |-> <<>>, version |-> NoStr, resolved_version |-> <<>>, url |-> <<>>]

InitState ==
  /\ now = 0
  /\ cache = CacheClear
  /\ lockHolder = 0
  /\ waiters = <<>>
  /\ task = [c \in Callers |-> IdleTask]
  /\ nextTok = 1
  /\ postCalls = 0
  /\ revoked = {}
  /\ after401 = "none"
  /\ lastSet = NoSet

InitCommon ==
  /\ InitState
  /\ scope = NoScope
  /\ pager = NoPager
  /\ odata = NoOData
  /\ tool = NoTool

\* the strategy instance task c works with: each task constructs its own,
\* and __init__ binds self._cache of every instance to the one module-level
\* _token_cache (auth.py 72, 102, 166), which is the variable cache
InstanceOf(c) == c

\* ---- the credential layer alone: tasks call get_token directly
InitAuth ==
  /\ authMode \in AuthModes
  /\ retryMax = 1
  /\ InitCommon

NextAuth ==
  \/ \E c \in Callers : StartGetToken(c)
  \/ \E c \in Callers : LockAcquired(c)
  \/ \E c \in Callers : \E out \in AuthOutcomes : AuthRespond(c, out)
  \/ Elapse

SpecAuth == InitAuth /\ [][NextAuth]_vars

\* ---- the credential layer under fair scheduling: the event loop resumes a
\* task that owns the lock, and every call of the authentication endpoint
\* ends (httpx returns a response or raises, at the latest on its timeout);
\* nothing obliges a task to call get_token or the clock to advance
SpecAuthLive ==
  /\ InitAuth
  /\ [][NextAuth]_vars
  /\ \A c \in Callers : WF_vars(LockAcquired(c))
  /\ \A c \in Callers : WF_vars(\E out \in AuthOutcomes : AuthRespond(c, out))

\* ---- the credential layer with task cancellation and a static-token
\* strategy used next to the caching one
\* the list l without c
Without(l, c) == SelectSeq(l, LAMBDA d : d # c)

\* task c is cancelled while suspended inside get_token: CancelledError is
\* raised at its await, which is the lock's acquire or client.post inside
\* `async with self._cache._lock`; neither except clause catches it
Cancel(c) ==
  /\ task[c].pc \in {"post", "lock_wait"}
  /\ task' = [task EXCEPT ![c] =
              Finish(task[c], Result("CancelledError", EmptyToken, 0, "", task[c].pc, 0))]
  /\ IF task[c].pc = "post" \/ lockHolder = c
       THEN ReleaseLock
       ELSE waiters' = Without(waiters, c) /\ UNCHANGED lockHolder
  /\ UNCHANGED <<scope, pager, odata, tool, authMode, retryMax, now, cache, nextTok, postCalls,
                 revoked, after401, lastSet>>

\* task c calls get_token of a PATAuthStrategy built from the same settings
PatGetToken(c) ==
  /\ MayStart(c)
  /\ task' = [task EXCEPT ![c] =
              Finish([task[c] EXCEPT !.call = "get_token", !.g.how = "pat"], PATGetToken)]
  /\ UNCHANGED <<scope, pager, odata, tool, authMode, retryMax, now, cache, lockHolder, waiters,
                 nextTok, postCalls, revoked, after401, lastSet>>

NextCancel ==
  \/ NextAuth
  \/ \E c \in Callers : Cancel(c)
  \/ \E c \in Callers : PatGetToken(c)

SpecCancel == InitAuth /\ [][NextCancel]_vars

\* ---- the Request Executor: UiPathClient._request
\* what the platform answers to one HTTP call: a response with a status, or a
\* transport exception raised by client.request
HttpStatuses == {200, 204, 400, 401, 404, 429, 500, 502, 503, 504}

HttpOutcomes ==
  {[exc |-> "none", status |-> s] : s \in HttpStatuses}
  \cup {[exc |-> k, status |-> 0] : k \in NetworkErrors}

StatusError(s) == [exc |-> "HTTPStatusError", status |-> s]

\* raise UiPathError(...) inside the attempt: not retryable, re-raised by
\* `except UiPathError: raise`
UiPathError(t, status, code, msg) ==
  Finish(t, [Result("UiPathError", EmptyToken, status, code, msg, status)
               EXCEPT !.endpoint = "url"])

\* the bodies of an error response: a JSON object with message and errorCode,
\* one with Message and ErrorCode, one with neither key, JSON that is not an
\* object, and text that is not JSON
ErrorBodies == {"message", "Message", "no_keys", "not_object", "not_json"}

\* message as _raise_api_error computes it (client.py 196-201)
ParsedMessage(b) ==
  CASE b = "message" -> "body.message"
    [] b = "Message" -> "body.Message"
    [] OTHER -> "str(exc)"

\* error_code as _raise_api_error computes it (client.py 199-202)
ParsedCode(b) ==
  CASE b = "message" -> "body.errorCode"
    [] b = "Message" -> "body.ErrorCode"
    [] b = "no_keys" -> ""
    [] OTHER -> "None"

\* _raise_api_error that drops the response text and the url
RaiseApiError_Bare(t, s, b) ==
  Finish(t, Result("UiPathError", EmptyToken, s, ParsedCode(b), ParsedMessage(b), s))

\* _raise_api_error(exc, url)
RaiseApiError(t, s, b) ==
  Finish(t, [Result("UiPathError", EmptyToken, s, ParsedCode(b), ParsedMessage(b), s)
               EXCEPT !.detail = b, !.endpoint = "url"])

\* the status handling without the 404 branch: 404 is handled as any other 4xx
HandleStatus_No404(t, s, b) ==
  CASE s \in {429, 401} -> RaiseInAttempt(t, StatusError(s))
    [] s >= 400 /\ s \notin {401, 429} ->
         IF IsRetryable(StatusError(s))
           THEN RaiseInAttempt(t, StatusError(s))
           ELSE RaiseApiError(t, s, b)
    [] OTHER ->
         Finish(t, Result("response", EmptyToken, s, "", "", s))

\* the status handling of one attempt, after any 429 sleep (client.py 255-278)
HandleStatus(t, s, b) ==
  CASE s = 429 -> RaiseInAttempt(t, StatusError(s))
    [] s = 401 -> RaiseInAttempt(t, StatusError(s))
    [] s = 404 -> UiPathError(t, 404, "NOT_FOUND", "Resource not found")
    [] s >= 400 /\ s \notin {401, 404, 429} ->
         IF IsRetryable(StatusError(s))
           THEN RaiseInAttempt(t, StatusError(s))
           ELSE RaiseApiError(t, s, b)
    [] OTHER ->
         Finish(t, Result("response", EmptyToken, s, "", "", s))

\* the values of the Retry-After header of a 429: "" is an absent header,
\* "http-date" is the date form of the header
RetryAfterHeaders == {"", "0", "1", "-1", "http-date"}

\* float(retry_after) returns a number
IsFloat(h) == h \in {"0", "1", "-1"}

\* float(retry_after)
FloatOf(h) == CASE h = "0" -> 0 [] h = "1" -> 1 [] h = "-1" -> 0 - 1

\* wait_sec (client.py 251-252)
WaitSec(h) == IF h # "" THEN FloatOf(h) ELSE RetryMinWait

\* the 429 branch up to its await: the header is read and the sleep starts,
\* or float() raises ValueError inside the attempt
RateLimited(t, h) ==
  IF h # "" /\ ~IsFloat(h)
    THEN \* ValueError is not retryable: it leaves the retry loop as it is
         Finish(t, Result("ValueError", EmptyToken, 0, "", "", 429))
    ELSE [t EXCEPT !.pc = "sleep429", !.hdr = h, !.t429 = now]

\* a sleep that returns at once
SleepOver_AtOnce(t) == TRUE

\* asyncio.sleep(wait_sec) started at t429 has returned
SleepOver(t) == now >= t.t429 + WaitSec(t.hdr)

\* a 401 that leaves the cache alone
CacheAfterStatus_Keep(s) == cache

\* the cache after a response with status s was handled (client.py 257-259)
CacheAfterStatus(s) == IF s = 401 THEN CacheClear ELSE cache

Observe(t, r) ==
  [t EXCEPT !.last = r,
            !.first = IF t.first = NoResponse THEN r ELSE @,
            !.same = (t.first = NoResponse \/ (t.same /\ r = t.first))]

\* the bodies that matter to the handling of a response with status s
BodiesOf(s) ==
  IF s >= 400 /\ s \notin {401, 404, 429} /\ ~IsRetryable(StatusError(s))
    THEN ErrorBodies ELSE {"none"}

\* a call of _request by task c: the first attempt starts
StartRequest(c) ==
  /\ MayStart(c)
  /\ EnterGetToken(c, [task[c] EXCEPT !.call = "request", !.attempt = 1])

\* client.request of task c's current attempt completes with r
HttpRespond(c, r) ==
  /\ task[c].pc = "send"
  /\ LET t == Observe(task[c], r)
     IN IF r.exc # "none"
          THEN /\ task' = [task EXCEPT ![c] = RaiseInAttempt(t, r)]
               /\ UNCHANGED <<cache, revoked, after401, lastSet>>
          ELSE IF r.status = 429
            THEN /\ \E h \in RetryAfterHeaders :
                      task' = [task EXCEPT ![c] = RateLimited(t, h)]
                 /\ UNCHANGED <<cache, revoked, after401, lastSet>>
            ELSE /\ \E b \in BodiesOf(r.status) :
                      task' = [task EXCEPT ![c] = HandleStatus(t, r.status, b)]
                 /\ cache' = CacheAfterStatus(r.status)
                 /\ revoked' = IF r.status = 401
                                 THEN revoked \cup ({cache.access_token} \ {EmptyToken})
                                 ELSE revoked
                 /\ after401' = IF r.status # 401 THEN after401
                                  ELSE IF \E d \in Callers : task[d].pc = "post"
                                    THEN "in_flight" ELSE "idle"
                 /\ lastSet' = IF r.status = 401 THEN NoSet ELSE lastSet
  /\ UNCHANGED <<scope, pager, odata, tool, authMode, retryMax, now, lockHolder, waiters, nextTok, postCalls>>

\* the sleep after a 429 ends: response.raise_for_status() (client.py 254-255)
Wake429(c) ==
  /\ task[c].pc = "sleep429"
  /\ SleepOver(task[c])
  /\ task' = [task EXCEPT ![c] = HandleStatus(task[c], 429, "none")]
  /\ UNCHANGED <<scope, pager, odata, tool, authMode, retryMax, now, cache, lockHolder, waiters, nextTok,
                 postCalls, revoked, after401, lastSet>>

\* time.monotonic() advances while task c sleeps
SleepTick(c) ==
  /\ task[c].pc = "sleep429"
  /\ ~SleepOver(task[c])
  /\ now' = now + 1
  /\ UNCHANGED <<scope, pager, odata, tool, authMode, retryMax, cache, lockHolder, waiters, task, nextTok,
                 postCalls, revoked, after401, lastSet>>

\* the back-off wait of the retry loop ends: the next attempt starts
NextAttempt(c) ==
  /\ task[c].pc = "backoff"
  /\ EnterGetToken(c, [task[c] EXCEPT !.attempt = @ + 1])

\* ---- a tool handler around one client call (tools/jobs.py list_jobs)
\* what the handler does with the outcome r of `await st.client.get(...)`: it
\* returns a JSON string, with an "error" key when it caught UiPathError, or
\* the exception leaves the handler
ListJobs(r) ==
  CASE r.kind = "response" -> [raised |-> FALSE, json |-> TRUE, error |-> FALSE]
    [] r.kind = "UiPathError" -> [raised |-> FALSE, json |-> TRUE, error |-> TRUE]
    [] OTHER -> [raised |-> TRUE, json |-> FALSE, error |-> FALSE]

\* ---- concurrent requests sharing the token cache
AuthOutcomesShared ==
  {o \in AuthOutcomes :
     \/ o.kind = "ok" /\ (~o.has_e \/ o.e = 61)
     \/ o.kind = "http_error" /\ o.status = 401
     \/ o.kind = "ConnectError"}

HttpOutcomesShared ==
  {r \in HttpOutcomes : r.exc = "none" /\ r.status \in {200, 401, 503}}

Init ==
  /\ authMode \in AuthModes
  /\ retryMax \in 1..MaxAttempts
  /\ InitCommon

Next ==
  \/ \E c \in Callers : StartRequest(c)
  \/ \E c \in Callers : LockAcquired(c)
  \/ \E c \in Callers : \E out \in AuthOutcomesShared : AuthRespond(c, out)
  \/ \E c \in Callers : \E r \in HttpOutcomesShared : HttpRespond(c, r)
  \/ \E c \in Callers : NextAttempt(c)
  \/ Tick

Spec == Init /\ [][Next]_vars

\* ---- one request at a time, every answer of the platform
InitReq ==
  /\ authMode \in AuthModes
  /\ retryMax \in (1..MaxAttempts) \cup {DefaultMaxAttempts}
  /\ InitCommon

NextReq ==
  \/ StartRequest(1)
  \/ \E out \in AuthOutcomes : AuthRespond(1, out)
  \/ \E r \in HttpOutcomes : HttpRespond(1, r)
  \/ Wake429(1)
  \/ SleepTick(1)
  \/ NextAttempt(1)
  \/ Tick

SpecReq == InitReq /\ [][NextReq]_vars

\* one request whose every await returns: the answer of the authentication
\* endpoint, the answer of the platform, the 429 sleep and the back-off wait;
\* the clock is read by the 429 sleep only
NextReqLive ==
  \/ StartRequest(1)
  \/ \E out \in AuthOutcomes : AuthRespond(1, out)
  \/ \E r \in HttpOutcomes : HttpRespond(1, r)
  \/ Wake429(1)
  \/ SleepTick(1)
  \/ NextAttempt(1)

InitReqLive ==
  /\ authMode \in AuthModes
  /\ retryMax \in 1..MaxAttempts
  /\ InitCommon

SpecReqLive ==
  /\ InitReqLive
  /\ [][NextReqLive]_vars
  /\ WF_vars(\E out \in AuthOutcomes : AuthRespond(1, out))
  /\ WF_vars(\E r \in HttpOutcomes : HttpRespond(1, r))
  /\ WF_vars(SleepTick(1))
  /\ WF_vars(Wake429(1))
  /\ WF_vars(NextAttempt(1))

\* ---- the TokenCache alone: set, clear and the passing of time in any order
ExpiresInWide == {0, 1, 59, 60, 61, 62, 63, OnPremExpiresIn, DefaultExpiresIn}

CacheTokens == {EmptyToken, 1, 2}

\* TokenCache.set(token, expires_in)
CacheOpSet(token, e) ==
  /\ cache' = CacheSet(token, e, now)
  /\ lastSet' = [t0 |-> now, e |-> e, live |-> TRUE]
  /\ UNCHANGED <<scope, pager, odata, tool, authMode, retryMax, now, lockHolder, waiters, task, nextTok,
                 postCalls, revoked, after401>>

\* TokenCache.clear()
CacheOpClear ==
  /\ cache' = CacheClear
  /\ lastSet' = NoSet
  /\ UNCHANGED <<scope, pager, odata, tool, authMode, retryMax, now, lockHolder, waiters, task, nextTok,
                 postCalls, revoked, after401>>

ClockTick ==
  /\ now < MaxClock
  /\ now' = now + 1
  /\ UNCHANGED <<scope, pager, odata, tool, authMode, retryMax, cache, lockHolder, waiters, task, nextTok,
                 postCalls, revoked, after401, lastSet>>

InitCache ==
  /\ authMode = "cloud"
  /\ retryMax = 1
  /\ InitCommon

NextCache ==
  \/ \E token \in CacheTokens : \E e \in ExpiresInWide : CacheOpSet(token, e)
  \/ CacheOpClear
  \/ ClockTick

SpecCache == InitCache /\ [][NextCache]_vars

\* ---- folder scoping: UiPathClient._folder_headers
FolderIds == {0, 7, 42}

OptFolderIds == {NoId} \cup {SomeId(n) : n \in FolderIds}

PathChars == {"a", "/", " "}

\* the folder paths: every string of at most MaxPathLen characters
FolderPaths == UNION {[1..n -> PathChars] : n \in 0..MaxPathLen}

OptFolderPaths == {NoStr} \cup {SomeStr(p) : p \in FolderPaths}

DigitChars == <<"0", "1", "2", "3", "4", "5", "6", "7", "8", "9">>

RECURSIVE StrOf(_)
\* str(n) of a non-negative int
StrOf(n) ==
  IF n < 10 THEN <<DigitChars[n + 1]>>
  ELSE Append(StrOf(n \div 10), DigitChars[(n % 10) + 1])

\* quote(ch, safe=""): letters pass, "/" and " " are percent-encoded
QuoteChar(ch) ==
  CASE ch = "/" -> <<"%", "2", "F">>
    [] ch = " " -> <<"%", "2", "0">>
    [] OTHER -> <<ch>>

RECURSIVE Quote(_)
\* urllib.parse.quote(path, safe="")
Quote(path) ==
  IF path = <<>> THEN <<>>
  ELSE QuoteChar(Head(path)) \o Quote(Tail(path))

\* _folder_headers that adds the path header next to the id header
FolderHeaders_Both(sc, folder_id, folder_path) ==
  LET eff_id == IF folder_id.some THEN folder_id ELSE sc.uipath_folder_id
      eff_path == IF Truthy(folder_path) THEN folder_path ELSE sc.uipath_folder_path
  IN [OrganizationUnitId |-> IF eff_id.some THEN SomeStr(StrOf(eff_id.v)) ELSE NoStr,
      FolderPathEncoded |-> IF Truthy(eff_path) THEN SomeStr(Quote(eff_path.v))
                            ELSE NoStr]

\* _folder_headers(folder_id, folder_path) under the settings of sc
FolderHeaders(sc, folder_id, folder_path) ==
  LET eff_id == IF folder_id.some THEN folder_id ELSE sc.uipath_folder_id
      eff_path == IF Truthy(folder_path) THEN folder_path ELSE sc.uipath_folder_path
  IN IF eff_id.some
       THEN [NoHeaders EXCEPT !.OrganizationUnitId = SomeStr(StrOf(eff_id.v))]
       ELSE IF Truthy(eff_path)
         THEN [NoHeaders EXCEPT !.FolderPathEncoded = SomeStr(Quote(eff_path.v))]
         ELSE NoHeaders

\* the one request of a behaviour is prepared with the arguments folder_id and
\* folder_path
CallFolderHeaders(folder_id, folder_path) ==
  /\ ~scope.called
  /\ scope' = [scope EXCEPT !.called = TRUE, !.folder_id = folder_id,
                            !.folder_path = folder_path,
                            !.headers = FolderHeaders(scope, folder_id, folder_path)]
  /\ UNCHANGED <<pager, odata, tool, authMode, retryMax, now, cache, lockHolder, waiters, task,
                 nextTok, postCalls, revoked, after401, lastSet>>

InitFolder ==
  /\ authMode = "pat"
  /\ retryMax = 1
  /\ InitState
  /\ pager = NoPager
  /\ odata = NoOData
  /\ tool = NoTool
  /\ \E d \in OptFolderIds : \E p \in OptFolderPaths :
       scope = [NoScope EXCEPT !.uipath_folder_id = d, !.uipath_folder_path = p]

NextFolder ==
  \E folder_id \in OptFolderIds : \E folder_path \in OptFolderPaths :
    CallFolderHeaders(folder_id, folder_path)

SpecFolder == InitFolder /\ [][NextFolder]_vars

\* ---- the Pager: UiPathClient.paginate and collect_all
Min(a, b) == IF a <= b THEN a ELSE b

\* len(items)
PageLen(p) == IF p.hi < p.lo THEN 0 ELSE p.hi - p.lo + 1

\* the items of a page, in order
Ids(p) == [i \in 1..PageLen(p) |-> p.lo + i - 1]

\* data["value"] of a collection of `total` items queried with $top and $skip
ServerPage(total, skip, top) == [lo |-> skip + 1, hi |-> Min(total, skip + top)]

\* a slice that keeps every item
Take_All(p, n) == p

\* items[:n]
Take(p, n) ==
  IF n >= 0 THEN [lo |-> p.lo, hi |-> Min(p.hi, p.lo + n - 1)]
  ELSE [lo |-> p.lo, hi |-> p.hi + n]

\* a short page that does not end the loop
ShortPage_Never(n, page_size) == FALSE

\* len(items) < page_size (client.py 446)
ShortPage(n, page_size) == n < page_size

\* {**a, **b}: the entries of b replace those of a
DictMerge(a, b) ==
  [k \in DOMAIN a \cup DOMAIN b |-> IF k \in DOMAIN b THEN b[k] ELSE a[k]]

\* the paging entries of one fetch
Paging(page_size, skip) ==
  [k \in {"$top", "$skip"} |-> IF k = "$top" THEN page_size ELSE skip]

\* page_params in which the caller's entries win
PageParams_BaseWins(base, page_size, skip) ==
  DictMerge(Paging(page_size, skip), base)

\* page_params = {**base_params, "$top": page_size, "$skip": skip}
PageParams(base, page_size, skip) ==
  DictMerge(base, Paging(page_size, skip))

\* the first fetch of the call is issued (client.py 424-430)
StartPager ==
  /\ pager.pc = "idle"
  /\ pager.op # "none"
  /\ pager' = [pager EXCEPT !.pc = "fetch", !.fetches = 1,
                            !.sent = <<PageParams(pager.base, pager.page_size, 0)>>]
  /\ UNCHANGED <<scope, odata, tool, authMode, retryMax, now, cache, lockHolder, waiters, task,
                 nextTok, postCalls, revoked, after401, lastSet>>

\* self.get returns a page: the loop runs to its yield or to the break on an
\* empty page; collect_all extends its results with the page it is handed
PageArrives ==
  /\ pager.pc = "fetch"
  /\ LET q == pager.sent[Len(pager.sent)]
         data == ServerPage(pager.total, q["$skip"], q["$top"])
         items == IF pager.max_items.some
                    THEN Take(data, pager.max_items.v - pager.collected)
                    ELSE data
     IN pager' =
          IF PageLen(data) = 0
            THEN [pager EXCEPT !.pc = "done"]
            ELSE [pager EXCEPT !.pc = "yielded", !.items = items,
                               !.pages = Append(@, items),
                               !.results = IF pager.op = "collect_all"
                                             THEN @ \o Ids(items) ELSE @]
  /\ UNCHANGED <<scope, odata, tool, authMode, retryMax, now, cache, lockHolder, waiters, task,
                 nextTok, postCalls, revoked, after401, lastSet>>

\* self.get raises: the exception leaves the generator
GetFails ==
  /\ pager.pc = "fetch"
  /\ pager' = [pager EXCEPT !.pc = "raised"]
  /\ UNCHANGED <<scope, odata, tool, authMode, retryMax, now, cache, lockHolder, waiters, task,
                 nextTok, postCalls, revoked, after401, lastSet>>

\* the consumer asks for the next page: the loop runs from the yield to the
\* next fetch or to a break (client.py 441-447)
Resume ==
  /\ pager.pc = "yielded"
  /\ LET collected == pager.collected + PageLen(pager.items)
         stop == \/ pager.max_items.some /\ collected >= pager.max_items.v
                 \/ ShortPage(PageLen(pager.items), pager.page_size)
         skip == pager.skip + pager.page_size
     IN pager' = [pager EXCEPT !.collected = collected,
                               !.skip = skip,
                               !.pc = IF stop THEN "done" ELSE "fetch",
                               !.fetches = IF stop THEN @ ELSE @ + 1,
                               !.sent = IF stop THEN @
                                        ELSE Append(@, PageParams(pager.base,
                                                                  pager.page_size, skip))]
  /\ UNCHANGED <<scope, odata, tool, authMode, retryMax, now, cache, lockHolder, waiters, task,
                 nextTok, postCalls, revoked, after401, lastSet>>

\* a generator that fetches once more when its consumer stops
Abandon_Prefetch ==
  /\ pager.pc = "yielded"
  /\ pager.op = "paginate"
  /\ pager' = [pager EXCEPT !.pc = "closed", !.fetches = @ + 1]
  /\ UNCHANGED <<scope, odata, tool, authMode, retryMax, now, cache, lockHolder, waiters, task,
                 nextTok, postCalls, revoked, after401, lastSet>>

\* the consumer of paginate stops iterating after a page
Abandon ==
  /\ pager.pc = "yielded"
  /\ pager.op = "paginate"
  /\ pager' = [pager EXCEPT !.pc = "closed"]
  /\ UNCHANGED <<scope, odata, tool, authMode, retryMax, now, cache, lockHolder, waiters, task,
                 nextTok, postCalls, revoked, after401, lastSet>>

\* the sizes of the collections and the caps collect_all is called with; the
\* largest collection has a full page at every offset a capped call reaches
CollectTotals == {0, 1, 99, DefaultPageSize, 101, 150, 200, 201, 2 * DefaultMaxItems}

CollectCaps == {0, 1, 99, DefaultPageSize, 101, 150, 200, DefaultMaxItems}

\* the params a caller hands to paginate: none, a filter, or a query that
\* carries its own $top and $skip
BaseParams ==
  {<<>>,
   [k \in {"$filter"} |-> "State eq 'Running'"],
   [k \in {"$top", "$skip", "$count"} |->
      CASE k = "$top" -> 50 [] k = "$skip" -> 100 [] OTHER -> "true"]}

\* paginate(params, page_size, max_items) over a collection of `total` items
PaginateCalls ==
  {[NoPager EXCEPT !.op = "paginate", !.total = n, !.page_size = ps, !.max_items = m,
                   !.base = b] :
     n \in 0..MaxTotal, ps \in 1..MaxPageSize,
     m \in {NoId} \cup {SomeId(k) : k \in 0..(MaxTotal + 1)}, b \in BaseParams}

\* collect_all(max_items): paginate with its default page size
CollectAllCalls ==
  {[NoPager EXCEPT !.op = "collect_all", !.total = n, !.page_size = DefaultPageSize,
                   !.max_items = SomeId(m)] :
     n \in CollectTotals, m \in CollectCaps}

InitPager ==
  /\ authMode = "pat"
  /\ retryMax = 1
  /\ InitState
  /\ scope = NoScope
  /\ odata = NoOData
  /\ tool = NoTool
  /\ pager \in PaginateCalls \cup CollectAllCalls

NextPager ==
  \/ StartPager
  \/ PageArrives
  \/ GetFails
  \/ Resume
  \/ Abandon

SpecPager == InitPager /\ [][NextPager]_vars

\* ------------------------------------------------------------- ODataParams
\* d[k] = v that leaves an entry already there as it is
SetItem_KeepFirst(d, k, v) ==
  [x \in DOMAIN d \cup {k} |-> IF x \in DOMAIN d THEN d[x] ELSE v]

\* d[k] = v on a dict
SetItem(d, k, v) ==
  [x \in DOMAIN d \cup {k} |-> IF x = k THEN v ELSE d[x]]

\* ",".join(names)
RECURSIVE Join(_)
Join(names) ==
  IF names = <<>> THEN ""
  ELSE IF Len(names) = 1 THEN names[1]
  ELSE names[1] \o "," \o Join(Tail(names))

\* the setters, as functions of self._params
Top(d, n) == SetItem(d, "$top", n)

Skip(d, n) == SetItem(d, "$skip", n)

Filter(d, expr) == SetItem(d, "$filter", expr)

Select(d, fields) == SetItem(d, "$select", Join(fields))

Orderby(d, field_name, direction) ==
  SetItem(d, "$orderby", field_name \o " " \o direction)

Expand(d, relations) == SetItem(d, "$expand", Join(relations))

Count(d) == SetItem(d, "$count", "true")

\* the setter calls the model draws from; orderby("Id") is completed with the
\* default direction
OCall(op, n, a, b, list) == [op |-> op, n |-> n, a |-> a, b |-> b, list |-> list]

SetterCalls ==
  {OCall("top", 50, "", "", <<>>), OCall("top", 10, "", "", <<>>),
   OCall("skip", 100, "", "", <<>>),
   OCall("filter", 0, "State eq 'Running'", "", <<>>),
   OCall("select", 0, "", "", <<"Id", "Name", "State">>),
   OCall("select", 0, "", "", <<"Id">>),
   OCall("orderby", 0, "CreationTime", "desc", <<>>),
   OCall("orderby", 0, "Id", "asc", <<>>),
   OCall("expand", 0, "", "", <<"Robot", "Release">>),
   OCall("count", 0, "", "", <<>>)}

\* self._params after the setter call c
ApplySetter(d, c) ==
  CASE c.op = "top" -> Top(d, c.n)
    [] c.op = "skip" -> Skip(d, c.n)
    [] c.op = "filter" -> Filter(d, c.a)
    [] c.op = "select" -> Select(d, c.list)
    [] c.op = "orderby" -> Orderby(d, c.a, c.b)
    [] c.op = "expand" -> Expand(d, c.list)
    [] OTHER -> Count(d)

\* `return self` of every setter: the builder the call was made on
SetterReturn(b) == b

\* a build that hands out the builder's own dict
BuildResult_Alias(o, b) == [alias |-> TRUE, of |-> b, val |-> <<>>]

\* build(): dict(self._params), a new dict with the entries of the moment
BuildResult(o, b) == [alias |-> FALSE, of |-> b, val |-> o.params[b]]

\* the entries of a returned mapping as its holder reads them
SnapValue(o, s) == IF s.alias THEN o.params[s.of] ELSE s.val

\* the next call of the chain is a setter
Setter(c) ==
  /\ odata.ops < MaxOps
  /\ odata' = [odata EXCEPT !.params[odata.cur] = ApplySetter(@, c),
                            !.cur = SetterReturn(odata.cur),
                            !.calls = Append(@, c),
                            !.ops = @ + 1]
  /\ UNCHANGED <<scope, pager, tool, authMode, retryMax, now, cache, lockHolder, waiters, task,
                 nextTok, postCalls, revoked, after401, lastSet>>

\* build() is called on the builder the chain has reached; the record of the
\* returned mapping notes the entries it had when returned, the calls made
\* until then, and the entries its holder should find in it
Build ==
  /\ odata.ops < MaxOps
  /\ LET r == BuildResult(odata, odata.cur)
         m == SnapValue(odata, r)
     IN odata' = [odata EXCEPT
                    !.snaps = Append(@, [alias |-> r.alias, of |-> r.of, val |-> r.val,
                                         built |-> m, calls |-> odata.calls,
                                         expect |-> m]),
                    !.ops = @ + 1]
  /\ UNCHANGED <<scope, pager, tool, authMode, retryMax, now, cache, lockHolder, waiters, task,
                 nextTok, postCalls, revoked, after401, lastSet>>

\* what list_packages does to the mapping it got: params["$filter"] = ...
CallerEdit(d) == SetItem(d, "$filter", "contains(Id,'x')")

\* the holder of the i-th returned mapping modifies it
EditReturned(i) ==
  /\ odata.ops < MaxOps
  /\ i \in 1..Len(odata.snaps)
  /\ LET s == odata.snaps[i]
     IN odata' = [odata EXCEPT
                    !.params[s.of] = IF s.alias THEN CallerEdit(@) ELSE @,
                    !.snaps[i].val = IF s.alias THEN @ ELSE CallerEdit(@),
                    !.snaps[i].expect = CallerEdit(@),
                    !.ops = @ + 1]
  /\ UNCHANGED <<scope, pager, tool, authMode, retryMax, now, cache, lockHolder, waiters, task,
                 nextTok, postCalls, revoked, after401, lastSet>>

InitOData ==
  /\ authMode = "pat"
  /\ retryMax = 1
  /\ InitCommon

NextOData ==
  \/ \E c \in SetterCalls : Setter(c)
  \/ Build
  \/ \E i \in 1..MaxOps : EditReturned(i)

SpecOData == InitOData /\ [][NextOData]_vars

\* ------------------------------------------------ tools/jobs.py handlers
\* how a call of st.client.get / st.client.post ends for the handler: with the
\* parsed body, with UiPathError (msg is its message), with UiPathAuthError,
\* or with an exception that _request let through
ClientResult(kind, msg) == [kind |-> kind, msg |-> msg]

ClientResults ==
  {ClientResult("response", ""), ClientResult("UiPathError", "Resource not found"),
   ClientResult("UiPathError", "HTTP 500 error"), ClientResult("UiPathAuthError", ""),
   ClientResult("HTTPStatusError", ""), ClientResult("TimeoutException", "")}

\* one client call as the handler issued it
ClientCall(method, endpoint, action, key) ==
  [method |-> method, endpoint |-> endpoint, action |-> action, key |-> key]

JobIds == {7, 42}

\* the lists of at most n job ids
JobIdLists(n) == UNION {[1..k -> JobIds] : k \in 0..n}

ProcessNames == {"Invoice", "Payroll"}

ReleaseKeys == {"key-a", "key-b"}

\* the "value" lists a Releases lookup is answered with
ReleaseLists == {<<>>} \cup {<<k>> : k \in ReleaseKeys}
                \cup {<<k, l>> : k, l \in ReleaseKeys}

\* f"{folder_id}"
FolderText(folder_id) ==
  IF ~folder_id.some THEN "None"
  ELSE IF folder_id.v = 7 THEN "7" ELSE "42"

\* ---- bulk_stop_jobs
\* stop_one(jid) once its client.post ended with r: the entry it returns, or
\* the exception that leaves it (only UiPathError is caught)
StopOne(jid, r) ==
  CASE r.kind = "response" ->
         [state |-> "returned", job_id |-> jid, status |-> "stop_requested", error |-> ""]
    [] r.kind = "UiPathError" ->
         [state |-> "returned", job_id |-> jid, status |-> "error", error |-> r.msg]
    [] OTHER ->
         [state |-> "raised", job_id |-> jid, status |-> r.kind, error |-> ""]

PendingSub(jid) == [state |-> "pending", job_id |-> jid, status |-> "", error |-> ""]

\* sum(1 for r in results if r["status"] == "stop_requested")
SuccessCount(results) ==
  Cardinality({i \in DOMAIN results : results[i].status = "stop_requested"})

\* the JSON document bulk_stop_jobs returns from the gathered results
BulkOutput(job_ids, results) ==
  [NoOutput EXCEPT !.kind = "json", !.total = Len(job_ids),
                   !.success = SuccessCount(results), !.results = results]

\* `await asyncio.gather(*coros)` seen from the handler once the sub-requests
\* stand as in subs: gather without return_exceptions passes the first
\* exception on at once, and returns the results in argument order when every
\* one returned
Gathered(t, subs, i) ==
  IF t.pc # "gather" THEN [t EXCEPT !.subs = subs]
  ELSE IF subs[i].state = "raised"
    THEN [t EXCEPT !.subs = subs, !.pc = "raised", !.exc = subs[i].status]
  ELSE IF \A j \in DOMAIN subs : subs[j].state = "returned"
    THEN [t EXCEPT !.subs = subs, !.pc = "returned",
                   !.out = BulkOutput(t.job_ids, subs)]
  ELSE [t EXCEPT !.subs = subs]

\* bulk_stop_jobs up to its await: every stop_one is started and posts
BulkStopJobs ==
  /\ tool.pc = "idle"
  /\ tool.name = "bulk_stop_jobs"
  /\ LET subs == [i \in DOMAIN tool.job_ids |-> PendingSub(tool.job_ids[i])]
         calls == [i \in DOMAIN tool.job_ids |->
                     ClientCall("POST", "Jobs", "StopJob", "")]
     IN tool' = IF tool.job_ids = <<>>
                  THEN [tool EXCEPT !.pc = "returned", !.out = BulkOutput(<<>>, <<>>)]
                  ELSE [tool EXCEPT !.pc = "gather", !.subs = subs, !.calls = calls]
  /\ UNCHANGED <<scope, pager, odata, authMode, retryMax, now, cache, lockHolder, waiters, task,
                 nextTok, postCalls, revoked, after401, lastSet>>

\* the client.post of the i-th stop_one ends with r; the sub-requests of a
\* gather that already raised go on running
SubRespond(i, r) ==
  /\ tool.name = "bulk_stop_jobs"
  /\ tool.pc \in {"gather", "raised"}
  /\ i \in DOMAIN tool.subs
  /\ tool.subs[i].state = "pending"
  /\ tool' = Gathered(tool, [tool.subs EXCEPT ![i] = StopOne(tool.job_ids[i], r)], i)
  /\ UNCHANGED <<scope, pager, odata, authMode, retryMax, now, cache, lockHolder, waiters, task,
                 nextTok, postCalls, revoked, after401, lastSet>>

\* ---- start_job
\* what any handler does with a failed client call: `except UiPathError`
\* returns its to_dict(), anything else leaves the handler
HandlerFailed(t, r) ==
  IF r.kind = "UiPathError"
    THEN [t EXCEPT !.pc = "returned", !.out = [NoOutput EXCEPT !.kind = "json", !.error = r.msg]]
    ELSE [t EXCEPT !.pc = "raised", !.exc = r.kind]

\* a start that takes the key of the last release found
ReleaseKey_Last(releases) == releases[Len(releases)]

\* release_key = releases[0]["Key"]
ReleaseKey(releases) == releases[1]

\* start_job up to its first await: the Releases lookup is issued
StartJob ==
  /\ tool.pc = "idle"
  /\ tool.name = "start_job"
  /\ tool' = [tool EXCEPT !.pc = "lookup",
                          !.calls = <<ClientCall("GET", "Releases", "", "")>>]
  /\ UNCHANGED <<scope, pager, odata, authMode, retryMax, now, cache, lockHolder, waiters, task,
                 nextTok, postCalls, revoked, after401, lastSet>>

\* the lookup ends with r, a response carrying the releases found
LookupRespond(r, releases) ==
  /\ tool.pc = "lookup"
  /\ r.kind = "response" \/ releases = <<>>
  /\ tool' =
       IF r.kind # "response" THEN HandlerFailed([tool EXCEPT !.lookup = r.kind], r)
       ELSE IF releases = <<>>
         THEN [tool EXCEPT
                 !.lookup = r.kind,
                 !.pc = "returned",
                 !.out = [NoOutput EXCEPT
                            !.kind = "json",
                            !.error = "Process '" \o tool.process_name
                                      \o "' not found in folder "
                                      \o FolderText(tool.folder_id)]]
       ELSE [tool EXCEPT
               !.lookup = r.kind,
               !.pc = "start",
               !.releases = releases,
               !.calls = Append(@, ClientCall("POST", "Jobs", "StartJobs",
                                              ReleaseKey(releases)))]
  /\ UNCHANGED <<scope, pager, odata, authMode, retryMax, now, cache, lockHolder, waiters, task,
                 nextTok, postCalls, revoked, after401, lastSet>>

\* the POST Jobs/StartJobs ends with r
StartRespond(r) ==
  /\ tool.pc = "start"
  /\ tool' =
       IF r.kind # "response" THEN HandlerFailed(tool, r)
       ELSE [tool EXCEPT
               !.pc = "returned",
               !.out = [NoOutput EXCEPT !.kind = "json",
                                        !.message = "Started job(s) for '"
                                                    \o tool.process_name \o "'"]]
  /\ UNCHANGED <<scope, pager, odata, authMode, retryMax, now, cache, lockHolder, waiters, task,
                 nextTok, postCalls, revoked, after401, lastSet>>

\* ---- wait_for_job
\* the members of JobState (models.py 36-45), and None for a job document
\* without a State
JobStates ==
  {"Pending", "Running", "Stopping", "Terminating", "Faulted", "Successful",
   "Stopped", "Suspended", "Resumed", "None"}

\* the terminal set as the docstring of wait_for_job names it
Terminal_Documented == {"Successful", "Faulted", "Stopped"}

\* terminal (jobs.py 441)
Terminal == {"Successful", "Faulted", "Stopped", "Terminating"}

\* while elapsed < timeout_seconds
TimeLeft(t) == t.elapsed < t.timeout_seconds

\* the top of the while loop: the next poll is issued, or the loop is left and
\* the timeout payload returned
LoopTop(t) ==
  IF TimeLeft(t)
    THEN [t EXCEPT !.pc = "poll", !.polls = @ + 1,
                   !.calls = Append(@, ClientCall("GET", "Jobs", "", ""))]
    ELSE [t EXCEPT !.pc = "returned",
                   !.out = [NoOutput EXCEPT !.kind = "json",
                                            !.error = "did not complete within timeout",
                                            !.elapsed_seconds = t.elapsed]]

\* wait_for_job up to its first await
WaitForJob ==
  /\ tool.pc = "idle"
  /\ tool.name = "wait_for_job"
  /\ tool' = LoopTop(tool)
  /\ UNCHANGED <<scope, pager, odata, authMode, retryMax, now, cache, lockHolder, waiters, task,
                 nextTok, postCalls, revoked, after401, lastSet>>

\* get_by_id ends with r, a response carrying the job in state js; waiting
\* notes whether every poll so far saw the job in a state outside the
\* documented terminal ones
PollRespond(r, js) ==
  /\ tool.pc = "poll"
  /\ r.kind = "response" \/ js = "None"
  /\ tool' =
       IF r.kind # "response"
         THEN HandlerFailed([tool EXCEPT !.waiting = FALSE], r)
       ELSE LET t == [tool EXCEPT !.state = js,
                                  !.waiting = @ /\ js \notin Terminal_Documented]
            IN IF js \in Terminal
                 THEN [t EXCEPT !.pc = "returned",
                                !.out = [NoOutput EXCEPT !.kind = "json",
                                                         !.final_state = js,
                                                         !.elapsed_seconds = t.elapsed]]
                 ELSE [t EXCEPT !.pc = "sleep"]
  /\ UNCHANGED <<scope, pager, odata, authMode, retryMax, now, cache, lockHolder, waiters, task,
                 nextTok, postCalls, revoked, after401, lastSet>>

\* asyncio.sleep(poll_interval_seconds) returns: elapsed is advanced and the
\* loop test is made
PollSleepOver ==
  /\ tool.pc = "sleep"
  /\ tool' = LoopTop([tool EXCEPT !.elapsed = @ + tool.poll_interval_seconds,
                                  !.sleeps = @ + 1])
  /\ UNCHANGED <<scope, pager, odata, authMode, retryMax, now, cache, lockHolder, waiters, task,
                 nextTok, postCalls, revoked, after401, lastSet>>

\* timeout_seconds and poll_interval_seconds: the least values the tool
\* accepts and values that do not divide each other
WaitTimeouts == {10, 12, 10 + 5 * MaxPolls}

WaitIntervals == {5, 7, 60}

\* ---- tools/packages.py download_and_read_package
\* package ids and versions, as sequences of characters
PackageIds == {<<"P", "k">>, <<"a", ".", "b">>}

PackageVersions == {<<"3", ".", "0">>, <<"7">>}

\* the Version fields of the "value" list a Processes lookup is answered with
VersionLists == {<<>>} \cup {<<v>> : v \in PackageVersions}
                \cup {<<v, w>> : v, w \in PackageVersions}

\* pkg_key = f"{package_id}.{resolved_version}" (packages.py 135)
PkgKey(package_id, resolved_version) == package_id \o <<".">> \o resolved_version

\* download_url: the text from the action name on, around the key
\* (packages.py 138-140)
DownloadUrl(pkg_key) ==
  <<"D", "o", "w", "n", "l", "o", "a", "d", "P", "a", "c", "k", "a", "g", "e",
    "(", "k", "e", "y", "=", "'">> \o pkg_key \o <<"'", ")">>

\* download_and_read_package up to its first await: the Processes lookup
DownloadAndReadPackage ==
  /\ tool.pc = "idle"
  /\ tool.name = "download_and_read_package"
  /\ tool' = [tool EXCEPT !.pc = "pkg_lookup",
                          !.calls = <<ClientCall("GET", "Processes", "", "")>>]
  /\ UNCHANGED <<scope, pager, odata, authMode, retryMax, now, cache, lockHolder, waiters, task,
                 nextTok, postCalls, revoked, after401, lastSet>>

\* a Processes lookup ends with r, a response listing packages with the
\* versions in found: the fallback lookup follows an empty first answer, the
\* not-found error an empty second one, the download request a found package
PkgLookupRespond(r, found) ==
  /\ tool.pc \in {"pkg_lookup", "pkg_fallback"}
  /\ r.kind = "response" \/ found = <<>>
  /\ tool' =
       IF r.kind # "response" THEN HandlerFailed(tool, r)
       ELSE IF found = <<>>
         THEN IF tool.pc = "pkg_lookup"
                THEN [tool EXCEPT !.pc = "pkg_fallback",
                                  !.calls = Append(@, ClientCall("GET", "Processes", "", ""))]
                ELSE [tool EXCEPT !.pc = "returned",
                                  !.out = [NoOutput EXCEPT !.kind = "json",
                                                           !.error = "Package not found"]]
       ELSE LET url == DownloadUrl(PkgKey(tool.package_id, found[1]))
            IN [tool EXCEPT !.pc = "download",
                            !.resolved_version = found[1],
                            !.url = url,
                            !.calls = Append(@, ClientCall("GET", "DownloadPackage", "", ""))]
  /\ UNCHANGED <<scope, pager, odata, authMode, retryMax, now, cache, lockHolder, waiters, task,
                 nextTok, postCalls, revoked, after401, lastSet>>

\* the download request ends with r; a response is unpacked and returned
DownloadRespond(r) ==
  /\ tool.pc = "download"
  /\ tool' =
       IF r.kind # "response" THEN HandlerFailed(tool, r)
       ELSE [tool EXCEPT !.pc = "returned",
                         !.out = [NoOutput EXCEPT !.kind = "json", !.message = "xaml_files"]]
  /\ UNCHANGED <<scope, pager, odata, authMode, retryMax, now, cache, lockHolder, waiters, task,
                 nextTok, postCalls, revoked, after401, lastSet>>

\* the tool calls the model starts from
ToolCalls ==
  {[NoTool EXCEPT !.name = "download_and_read_package", !.package_id = id,
                  !.version = v] :
     id \in PackageIds, v \in {NoStr} \cup {SomeStr(w) : w \in PackageVersions}}
  \cup
  {[NoTool EXCEPT !.name = "wait_for_job", !.timeout_seconds = ts,
                  !.poll_interval_seconds = pi] :
     ts \in WaitTimeouts, pi \in WaitIntervals}
  \cup
  {[NoTool EXCEPT !.name = "bulk_stop_jobs", !.job_ids = l, !.folder_id = f] :
     l \in JobIdLists(MaxJobs), f \in {NoId}}
  \cup {[NoTool EXCEPT !.name = "start_job", !.process_name = n, !.folder_id = f] :
          n \in ProcessNames, f \in {NoId, SomeId(7)}}

InitTool ==
  /\ authMode = "pat"
  /\ retryMax = 1
  /\ InitState
  /\ scope = NoScope
  /\ pager = NoPager
  /\ odata = NoOData
  /\ tool \in ToolCalls

NextTool ==
  \/ BulkStopJobs
  \/ \E i \in 1..MaxJobs : \E r \in ClientResults : SubRespond(i, r)
  \/ StartJob
  \/ \E r \in ClientResults : \E l \in ReleaseLists : LookupRespond(r, l)
  \/ \E r \in ClientResults : StartRespond(r)
  \/ WaitForJob
  \/ \E r \in ClientResults : \E js \in JobStates : PollRespond(r, js)
  \/ PollSleepOver
  \/ DownloadAndReadPackage
  \/ \E r \in ClientResults : \E found \in VersionLists : PkgLookupRespond(r, found)
  \/ \E r \in ClientResults : DownloadRespond(r)

SpecTool == InitTool /\ [][NextTool]_vars

\* ======================================================================
\* C3: a non-empty token stored by set(token, E) at time t0 is valid at every
\* time t < t0 + E - refresh_buffer and invalid at every t >= t0 + E -
\* refresh_buffer, until the next set or clear.
C3_CacheValidity ==
  (lastSet.live /\ cache.access_token # EmptyToken) =>
    (IsValid(cache, now) <=> now < lastSet.t0 + lastSet.e - RefreshBuffer)

\* the boundary instant of a token that was valid before it
C3_Witness ==
  /\ lastSet.live
  /\ cache.access_token # EmptyToken
  /\ lastSet.t0 < now
  /\ now = lastSet.t0 + lastSet.e - RefreshBuffer
  /\ ~IsValid(cache, now)

\* ======================================================================
\* C1: N >= 2 concurrent get_token callers that all start against an expired
\* or empty cache trigger exactly one credential-acquisition call, and all of
\* them receive the same token.
C1_SingleRefresh ==
  (\A c \in Callers :
      /\ task[c].pc = "done"
      /\ task[c].g.sawStale /\ task[c].g.concurrent
      /\ task[c].result.kind = "token" /\ task[c].result.tok # EmptyToken)
  => /\ postCalls = 1
     /\ \A c, d \in Callers : task[c].result.tok = task[d].result.tok

\* ======================================================================
\* C2: in every reachable state at most one credential-acquisition request is
\* in flight, and a caller that saw a stale cache and waited for the lock either
\* performs the refresh itself or returns the valid token that a refresh stored
\* after it saw the stale cache.
InFlight == {c \in Callers : task[c].pc = "post"}

WaiterStep(c) == task[c].pc = "lock_wait" /\ task'[c].pc # "lock_wait"

C2_OneRefreshInFlight ==
  /\ [](Cardinality(InFlight) <= 1)
  /\ [][\A c \in Callers :
          WaiterStep(c) =>
            \/ task'[c].pc = "post" /\ postCalls' = postCalls + 1
            \/ /\ task'[c].pc = "send"
               /\ task'[c].tok = cache.access_token
               /\ IsValid(cache, now)
               /\ task'[c].tok >= task[c].g.minted]_vars

\* a refresh of an expired token is in flight with another caller waiting for
\* the lock
C2_Witness ==
  \E c, d \in Callers :
    /\ task[c].pc = "post"
    /\ task[d].pc = "lock_wait"
    /\ cache.access_token # EmptyToken

\* ======================================================================
\* C4: when the cache is valid as get_token is called, the call returns the
\* cached token without taking the lock and without a network call, and leaves
\* the cache unchanged.
C4_FastPathFrame ==
  [][\A c \in Callers :
       (task[c].pc = "idle" /\ task'[c].pc # "idle" /\ authMode # "pat"
          /\ IsValid(cache, now))
       => /\ task'[c].pc = "done"
          /\ task'[c].g.how = "fast"
          /\ task'[c].result = TokenResult(cache.access_token)
          /\ cache' = cache
          /\ lockHolder' = lockHolder /\ waiters' = waiters
          /\ postCalls' = postCalls /\ nextTok' = nextTok]_vars

\* a second call after a successful first one returned the cached token, with
\* one token request made in all
C4_Witness ==
  \E c, d \in Callers :
    /\ task[c].pc = "done" /\ task[c].g.how = "acquired"
    /\ task[d].pc = "done" /\ task[d].g.how = "fast"
    /\ task[d].result.tok = task[c].result.tok
    /\ postCalls = 1

\* ======================================================================
\* C5: whenever a refresh attempt fails in the OAuth or password-exchange
\* variant, the cache is cleared (empty token) as get_token exits.
C5_FailureClearsCache ==
  [][\A c \in Callers :
       (task[c].pc = "post" /\ task'[c].pc = "done"
          /\ task'[c].result.kind # "token")
       => cache' = CacheClear]_vars

\* ======================================================================
\* C6: get_token returns a non-empty token or fails with UiPathAuthError, which
\* carries the HTTP status of an error response and no status after a
\* network-level failure.
C6_TokenOrAuthError ==
  \A c \in Callers :
    (task[c].pc = "done" /\ task[c].call = "get_token") =>
      \/ task[c].result.kind = "token" /\ task[c].result.tok # EmptyToken
      \/ /\ task[c].result.kind = "UiPathAuthError"
         /\ task[c].result.received >= 400 => task[c].result.status = task[c].result.received
         /\ task[c].result.received = 0 => task[c].result.status = 0

\* ======================================================================
\* C7: after a 401 cleared the cache, the next access to the credential by any
\* caller re-invokes the credential provider: no get_token call that starts
\* after the clear returns a token before a credential request is issued.
GetsToken(c) == task[c].pc # "send" /\ task'[c].pc = "send"

StartedAfter401(c) ==
  IF task[c].pc \in {"idle", "backoff"} THEN after401 # "none" ELSE task[c].g.after

C8_RetryOn401 ==
  \A c \in Callers :
    (task[c].pc = "done" /\ task[c].first = [exc |-> "none", status |-> 401]
       /\ retryMax >= 2)
    => task[c].attempt >= 2

\* ======================================================================
\* C9: a request answered 503 on each of its 3 attempts (retry_max_attempts =
\* 3) makes exactly 3 HTTP attempts and fails with the "all retries exhausted"
\* UiPathError.
C9_RetryExhausted ==
  \A c \in Callers :
    (task[c].pc = "done" /\ retryMax = DefaultMaxAttempts
       /\ task[c].first = [exc |-> "none", status |-> 503] /\ task[c].same
       /\ task[c].httpCalls = retryMax)
    => /\ task[c].result.kind = "UiPathError"
       /\ task[c].result.msg = "All retry attempts failed"

\* ======================================================================
\* C10: a 404 response ends the request at once with UiPathError(404,
\* NOT_FOUND); when it is the first response exactly one HTTP attempt was made,
\* whatever retry_max_attempts is.
C10_NotFoundNotRetried ==
  \A c \in Callers :
    /\ task[c].pc # "done" => task[c].last.status # 404
    /\ task[c].first = [exc |-> "none", status |-> 404]
       => /\ task[c].pc = "done"
          /\ task[c].httpCalls = 1
          /\ task[c].result =
               [Result("UiPathError", EmptyToken, 404, "NOT_FOUND",
                       "Resource not found", 404) EXCEPT !.endpoint = "url"]

C10_Witness ==
  /\ retryMax = DefaultMaxAttempts
  /\ task[1].pc = "done"
  /\ task[1].first = [exc |-> "none", status |-> 404]

\* ======================================================================
\* C11: a 429 answered by a 200 on the next call ends the request successfully
\* after exactly 2 HTTP calls; the second call is issued no earlier than the
\* Retry-After value (the minimum wait when the header is absent) after the
\* 429 was received; and the 429 is handed to the retry loop only after the
\* sleep.
After429(c) == task[c].last = [exc |-> "none", status |-> 429]

ExpectedWait(h) ==
  CASE h = "" -> RetryMinWait
    [] h = "0" -> 0
    [] h = "1" -> 1
    [] h = "-1" -> 0 - 1

C11_RateLimitHonoured ==
  [][\A c \in Callers :
       /\ (After429(c) /\ task[c].pc # "send" /\ task'[c].pc = "send")
          => now' - task[c].t429 >= ExpectedWait(task[c].hdr)
       /\ (After429(c) /\ task[c].pc = "send" /\ task[c].httpCalls = 2
             /\ task[c].first = task[c].last
             /\ task'[c].pc = "done" /\ task'[c].result.received = 200)
          => /\ task'[c].result.kind = "response"
             /\ task'[c].httpCalls = 2
       /\ (task[c].pc = "send" /\ task'[c].pc = "backoff")
          => task'[c].last.status # 429
       /\ (task[c].pc = "send" /\ task'[c].pc = "done")
          => task'[c].result # RawError(StatusError(429))
       /\ (task[c].pc = "sleep429" /\ task'[c].pc # "sleep429")
          => now >= task[c].t429 + ExpectedWait(task[c].hdr)]_vars

\* a request ended successfully on its second call, sent a positive wait
\* after a 429
C11_Witness ==
  /\ task[1].pc = "done"
  /\ task[1].first = [exc |-> "none", status |-> 429]
  /\ task[1].httpCalls = 2
  /\ task[1].result.kind = "response" /\ task[1].result.status = 200
  /\ now >= 1

\* ======================================================================
\* C12: a 429 received on an attempt that is not the last configured one is
\* followed by another attempt, whatever its Retry-After header holds.
C12_AlwaysRetried ==
  \A c \in Callers :
    (task[c].pc = "done" /\ task[c].first = [exc |-> "none", status |-> 429]
       /\ retryMax >= 2)
    => task[c].attempt >= 2

\* ======================================================================
\* C13: a failed attempt is followed by another one if and only if the failure
\* is a timeout, a connection failure or a status in {429, 502, 503, 504} (and
\* attempts remain); any other failure ends the request at once.
RetryableStatuses == {429, 502, 503, 504}

RetryableByClaim(kind, status) ==
  kind \in {"TimeoutException", "ConnectError"} \/ status \in RetryableStatuses

C13_RetryPredicate ==
  [][\A c \in Callers :
       task[c].pc = "send" =>
         /\ task'[c].pc \in {"backoff", "sleep429"}
            => RetryableByClaim(task'[c].last.exc, task'[c].last.status)
         /\ (task'[c].pc = "done" /\ task'[c].result.kind # "response"
               /\ RetryableByClaim(task'[c].result.kind, task'[c].result.received))
            => task[c].attempt = retryMax]_vars

\* ======================================================================
\* C14: every failure that leaves _request is a UiPathError or a
\* UiPathAuthError.
C14_StructuredErrorsOnly ==
  \A c \in Callers :
    (task[c].pc = "done" /\ task[c].call = "request")
    => task[c].result.kind \in {"response", "UiPathError", "UiPathAuthError"}

\* ======================================================================
\* C15: a non-2xx response other than 401, 404, 429, 502, 503, 504 is not
\* retried and fails with UiPathError carrying the status, the message and
\* error code of the JSON body (the status text when the body has none), the
\* response text and the url.
OtherError(s) == s >= 300 /\ s \notin {401, 404, 429, 502, 503, 504}

C15_OtherErrorsTranslated ==
  [][\A c \in Callers :
       task[c].pc = "send" =>
         /\ task'[c].pc # "done" => ~OtherError(task'[c].last.status)
         /\ (task'[c].pc = "done" /\ OtherError(task'[c].result.received))
            => LET r == task'[c].result
               IN /\ r.kind = "UiPathError"
                  /\ r.status = r.received
                  /\ r.endpoint = "url"
                  /\ r.detail \in ErrorBodies
                  /\ r.msg = (IF r.detail \in {"message", "Message"}
                               THEN "body." \o r.detail ELSE "str(exc)")
                  /\ r.detail = "message" => r.code = "body.errorCode"
                  /\ r.detail = "Message" => r.code = "body.ErrorCode"
                  /\ task'[c].httpCalls = task[c].httpCalls]_vars

\* a request answered 500 with a body that is not JSON on its first call, with
\* three attempts configured
C15_Witness ==
  /\ retryMax = DefaultMaxAttempts
  /\ task[1].pc = "done"
  /\ task[1].httpCalls = 1
  /\ task[1].result.received = 500
  /\ task[1].result.detail = "not_json"

\* ======================================================================
\* C16: a tool handler never raises: whatever the client call ends with, the
\* handler returns a JSON string, which holds an "error" key after a failure.
C16_ToolNeverRaises ==
  \A c \in Callers :
    (task[c].pc = "done" /\ task[c].call = "request")
    => /\ ~ListJobs(task[c].result).raised
       /\ ListJobs(task[c].result).json
       /\ task[c].result.kind # "response" => ListJobs(task[c].result).error

\* ======================================================================
\* C17: a request carries at most one of the two folder headers, and when both
\* folder_id and folder_path are supplied it carries only
\* X-UIPATH-OrganizationUnitId, with the supplied id.
C17_FolderHeadersExclusive ==
  scope.called =>
    /\ ~(scope.headers.OrganizationUnitId.some /\ scope.headers.FolderPathEncoded.some)
    /\ (scope.folder_id.some /\ scope.folder_path.some)
       => /\ scope.headers.OrganizationUnitId = SomeStr(StrOf(scope.folder_id.v))
          /\ ~scope.headers.FolderPathEncoded.some

\* both arguments supplied, with another id and a path as configured defaults
C17_Witness ==
  /\ scope.called
  /\ scope.folder_id = SomeId(42) /\ Truthy(scope.folder_path)
  /\ scope.uipath_folder_id = SomeId(7) /\ Truthy(scope.uipath_folder_path)
  /\ scope.headers.OrganizationUnitId = SomeStr(<<"4", "2">>)

\* ======================================================================
\* C18: the folder headers depend on the explicit arguments only: an explicit
\* id gives the id header; otherwise an explicit path gives the encoded path
\* header, also when a default id is configured; otherwise no header.
C18_ExplicitArgumentsOnly ==
  scope.called =>
    scope.headers =
      (IF scope.folder_id.some
         THEN [NoHeaders EXCEPT
                 !.OrganizationUnitId = SomeStr(StrOf(scope.folder_id.v))]
         ELSE IF Truthy(scope.folder_path)
           THEN [NoHeaders EXCEPT
                   !.FolderPathEncoded = SomeStr(Quote(scope.folder_path.v))]
           ELSE NoHeaders)

\* ======================================================================
\* C19: over a collection served as k full pages and then a non-empty page
\* shorter than page_size, paginate yields exactly k + 1 pages holding all the
\* items in order and stops after the short page, with k + 1 fetches.
RECURSIVE Flat(_)
Flat(pages) == IF pages = <<>> THEN <<>> ELSE Ids(Head(pages)) \o Flat(Tail(pages))

FullPages == pager.total \div pager.page_size

C21_AscendingSkip ==
  /\ Len(pager.sent) = pager.fetches
  /\ \A k \in 1..Len(pager.sent) :
       /\ pager.sent[k]["$skip"] = (k - 1) * pager.page_size
       /\ pager.sent[k]["$top"] = pager.page_size
       /\ \A key \in DOMAIN pager.base \ {"$top", "$skip"} :
            pager.sent[k][key] = pager.base[key]
  /\ pager.fetches <= Len(pager.pages) + 1
  /\ pager.pc = "fetch" => Len(pager.pages) = pager.fetches - 1
  /\ \A k \in 1..Len(pager.pages) :
       pager.pages[k].lo = (k - 1) * pager.page_size + 1

\* a third fetch of a call whose params carry their own $top and $skip
C21_Witness ==
  /\ pager.pc = "fetch" /\ pager.fetches = 3
  /\ "$skip" \in DOMAIN pager.base
  /\ pager.sent[3]["$skip"] = 2 * pager.page_size

\* ======================================================================
\* C22: a fetch is issued only when the call starts or when the consumer asks
\* for the page after the one it holds; a consumer that stops after m pages
\* has caused exactly m fetches, and none follows.
C22_LazyPager ==
  /\ [](pager.pc \in {"yielded", "closed"} => pager.fetches = Len(pager.pages))
  /\ [][/\ (pager'.fetches > pager.fetches)
             => (/\ pager.pc \in {"idle", "yielded"}
                 /\ pager'.pc = "fetch"
                 /\ pager'.fetches = pager.fetches + 1)
        /\ (pager.pc = "closed") => (pager' = pager)]_vars

\* the consumer stopped after 2 pages of a longer collection
C22_Witness ==
  /\ pager.pc = "closed"
  /\ Len(pager.pages) = 2 /\ pager.fetches = 2
  /\ pager.total > 2 * pager.page_size


\* ---- C23: the refresh lock is never left held. Whoever holds the lock is
\* inside the critical section (resumed owning it, or awaiting the network
\* call), nobody waits for a free lock, and a step in which the holder leaves
\* the critical section by any path, cancellation included, hands the lock to
\* the first waiter or frees it.
InCriticalSection(t) == t.pc \in {"post", "lock_wait"}

C23_HolderInside ==
  /\ lockHolder # 0 => InCriticalSection(task[lockHolder])
  /\ \A i \in 1..Len(waiters) : task[waiters[i]].pc = "lock_wait" /\ waiters[i] # lockHolder
  /\ waiters # <<>> => lockHolder # 0

C23_LockNeverLeftHeld ==
  /\ []C23_HolderInside
  /\ [][\A c \in Callers :
          (lockHolder = c /\ ~InCriticalSection(task'[c])) =>
             (/\ lockHolder' # c
              /\ lockHolder' = (IF waiters = <<>> THEN 0 ELSE Head(waiters)))]_vars

\* a task was cancelled during the network call and the other one, which
\* waited for the lock, is now making its own network call
C23_Witness ==
  \E c, d \in Callers :
     /\ task[c].pc = "done"
     /\ task[c].result.kind = "CancelledError"
     /\ task[c].result.msg = "post"
     /\ task[d].pc = "post"
     /\ lockHolder = d
     /\ postCalls = 2

\* ---- C25: get_token of the static-token strategy returns the configured
\* token in every cache and lock state, and the step leaves the token cache,
\* the lock, its waiters and the count of network calls as they were.
C25_PatFrame ==
  [][\A c \in Callers :
       (task[c].pc = "idle" /\ task'[c].g.how = "pat") =>
          (/\ task'[c].pc = "done"
           /\ task'[c].result = Result("token", PatToken, 0, "", "", 0)
           /\ cache' = cache
           /\ lockHolder' = lockHolder
           /\ waiters' = waiters
           /\ postCalls' = postCalls
           /\ nextTok' = nextTok)]_vars

\* the static token was returned while another task held the lock in its
\* network call
C25_Witness ==
  \E c, d \in Callers :
     /\ task[c].pc = "done"
     /\ task[c].g.how = "pat"
     /\ task[c].result.tok = PatToken
     /\ task[d].pc = "post"
     /\ lockHolder = d
     /\ authMode # "pat"

\* ---- C24: a failure to obtain the token is not retried by _request. When
\* get_token, called by an attempt, ends without a token, the request ends in
\* that same step with the failure: no further attempt and no API call.
C24_AuthFailureNotRetried ==
  [][\A c \in Callers :
       (/\ task[c].call = "request"
        /\ task[c].pc = "post"
        /\ task'[c].pc \notin {"post", "send"}) =>
          (/\ task'[c].pc = "done"
           /\ task'[c].result.kind \notin {"none", "token", "response"}
           /\ task'[c].attempt = task[c].attempt
           /\ task'[c].httpCalls = task[c].httpCalls)]_vars

\* ---- C26: token caches are per strategy instance. Two get_token calls made
\* through different instances of a caching strategy never return the same
\* token: what one instance stored is not handed out by the other.
ReturnedToken(c) ==
  /\ task[c].pc = "done"
  /\ task[c].call = "get_token"
  /\ task[c].result.kind = "token"
  /\ task[c].result.tok # EmptyToken

C26_PerInstanceCaches ==
  authMode # "pat" =>
    \A c, d \in Callers :
       (/\ InstanceOf(c) # InstanceOf(d)
        /\ ReturnedToken(c)
        /\ ReturnedToken(d)) => task[c].result.tok # task[d].result.tok

\* ---- C27: build() returns exactly what the chained setters accumulated: one
\* entry per distinct setter called, with the value of its last call ($top,
\* $skip, $filter as given, $select and $expand comma-joined, $orderby as
\* "field direction", $count "true"), nothing when no setter was called; and
\* every setter returns the builder it was called on.
WantKey(c) ==
  CASE c.op = "top" -> "$top"
    [] c.op = "skip" -> "$skip"
    [] c.op = "filter" -> "$filter"
    [] c.op = "select" -> "$select"
    [] c.op = "orderby" -> "$orderby"
    [] c.op = "expand" -> "$expand"
    [] OTHER -> "$count"

WantValue(c) ==
  CASE c.op \in {"top", "skip"} -> c.n
    [] c.op = "filter" -> c.a
    [] c.op = "select" /\ c.list = <<"Id", "Name", "State">> -> "Id,Name,State"
    [] c.op = "select" /\ c.list = <<"Id">> -> "Id"
    [] c.op = "orderby" /\ c.b = "desc" -> "CreationTime desc"
    [] c.op = "orderby" /\ c.b = "asc" -> "Id asc"
    [] c.op = "expand" -> "Robot,Release"
    [] OTHER -> "true"

LastCall(calls, k) ==
  calls[CHOOSE i \in DOMAIN calls :
          /\ WantKey(calls[i]) = k
          /\ \A j \in DOMAIN calls : WantKey(calls[j]) = k => j <= i]

Accumulated(calls) ==
  [k \in {WantKey(calls[i]) : i \in DOMAIN calls} |-> WantValue(LastCall(calls, k))]

C27_BuildReturnsAccumulated ==
  /\ odata.cur = 1
  /\ \A i \in 1..Len(odata.snaps) :
       /\ DOMAIN odata.snaps[i].built = DOMAIN Accumulated(odata.snaps[i].calls)
       /\ \A k \in DOMAIN odata.snaps[i].built :
            odata.snaps[i].built[k] = Accumulated(odata.snaps[i].calls)[k]
       /\ odata.snaps[i].calls = <<>> => DOMAIN odata.snaps[i].built = {}

\* a build after top(50), select("Id", "Name", "State"), top(10)
C27_Witness ==
  \E i \in 1..Len(odata.snaps) :
     /\ Len(odata.snaps[i].calls) = 3
     /\ odata.snaps[i].calls[1].op = "top"
     /\ odata.snaps[i].calls[1].n = 50
     /\ DOMAIN odata.snaps[i].built = {"$top", "$select"}
     /\ odata.snaps[i].built["$top"] = 10
     /\ odata.snaps[i].built["$select"] = "Id,Name,State"

\* ---- C28: build() returns a snapshot independent of the builder. A mapping
\* returned by build() holds the entries it was returned with, changed only
\* by its holder's own modifications, whatever setters are called afterwards;
\* and the builder holds what its setters accumulated, whatever is done to the
\* returned mappings, so a later build() is not affected by them.
SameDict(a, b) == DOMAIN a = DOMAIN b /\ \A k \in DOMAIN a : a[k] = b[k]

C28_SnapshotIndependent ==
  /\ \A i \in 1..Len(odata.snaps) :
       SameDict(SnapValue(odata, odata.snaps[i]), odata.snaps[i].expect)
  /\ SameDict(odata.params[1], Accumulated(odata.calls))

\* a mapping was returned, then a setter it could have seen was called and
\* the mapping was modified by its holder
C28_Witness ==
  /\ Len(odata.snaps) = 1
  /\ Len(odata.snaps[1].calls) = 1
  /\ Len(odata.calls) = 2
  /\ odata.calls[2].op = "filter"
  /\ odata.snaps[1].expect # odata.snaps[1].built
  /\ odata.ops = 4

\* ---- C29: bulk_stop_jobs captures each sub-request's failure on its own.
\* The tool never raises, and once every sub-request has ended it has
\* returned a results list with one entry per input job id in input order,
\* "total" the number of ids and "success" the number of stop_requested
\* entries.
AllSubsEnded ==
  \A i \in DOMAIN tool.subs : tool.subs[i].state # "pending"

C29_BulkStopCaptures ==
  tool.name = "bulk_stop_jobs" =>
    /\ tool.pc # "raised"
    /\ (tool.pc \notin {"idle"} /\ AllSubsEnded) =>
         /\ tool.pc = "returned"
         /\ tool.out.kind = "json"
         /\ tool.out.total = Len(tool.job_ids)
         /\ Len(tool.out.results) = Len(tool.job_ids)
         /\ \A i \in DOMAIN tool.job_ids :
              /\ tool.out.results[i].job_id = tool.job_ids[i]
              /\ tool.out.results[i].status \in {"stop_requested", "error"}
         /\ tool.out.success =
              Cardinality({i \in DOMAIN tool.job_ids :
                             tool.out.results[i].status = "stop_requested"})

\* ---- C30: start_job posts Jobs/StartJobs only after the Releases lookup
\* found a release, with that release's Key: every POST is the second call,
\* after the one GET, and carries the key of the first release found; a
\* successful start made exactly that GET and that POST; and when the lookup
\* found nothing the tool returned an error naming the process without a POST.
IsPost(c) == c.method = "POST"

C30_StartAfterLookup ==
  /\ []( tool.name = "start_job" =>
          /\ \A j \in DOMAIN tool.calls :
               IsPost(tool.calls[j]) =>
                 /\ j = 2
                 /\ tool.calls[1] = [method |-> "GET", endpoint |-> "Releases",
                                     action |-> "", key |-> ""]
                 /\ tool.releases # <<>>
                 /\ tool.calls[j].endpoint = "Jobs"
                 /\ tool.calls[j].action = "StartJobs"
                 /\ tool.calls[j].key = Head(tool.releases)
          /\ (tool.pc = "returned" /\ tool.out.message # "") =>
               (Len(tool.calls) = 2 /\ ~IsPost(tool.calls[1]) /\ IsPost(tool.calls[2])) )
  /\ [][\A n \in ProcessNames :
          (/\ tool.name = "start_job"
           /\ tool.process_name = n
           /\ tool.pc = "lookup"
           /\ tool'.lookup = "response"
           /\ tool'.releases = <<>>) =>
             (/\ tool'.pc = "returned"
              /\ tool'.out.error =
                   (IF n = "Invoice" THEN "Process 'Invoice' not found in folder "
                    ELSE "Process 'Payroll' not found in folder ")
                   \o (IF tool.folder_id.some THEN "7" ELSE "None")
              /\ tool'.calls = tool.calls
              /\ Len(tool'.calls) = 1)]_vars

\* a start that found two releases and succeeded
C30_Witness ==
  /\ tool.name = "start_job"
  /\ tool.pc = "returned"
  /\ tool.out.message # ""
  /\ Len(tool.releases) = 2
  /\ tool.releases[1] # tool.releases[2]
  /\ Len(tool.calls) = 2

\* ---- C33: one _request call makes at most retry_max_attempts attempts and
\* then ends. Attempts are numbered 1..retry_max_attempts, one HTTP call at
\* most per attempt; a new attempt follows only a retryable failure, never a
\* finished request; and a started request ends, with a response or an
\* error, when every network call and every sleep returns.
FailureOf(r) == IF r.exc # "none" THEN r ELSE [exc |-> "HTTPStatusError", status |-> r.status]

C33_AttemptsInRange ==
  \A c \in Callers :
     task[c].call = "request" =>
       /\ task[c].attempt \in 1..retryMax
       /\ task[c].httpCalls <= task[c].attempt

C33_BoundedAttempts ==
  /\ []C33_AttemptsInRange
  /\ [][\A c \in Callers :
          /\ (task[c].pc = "done") => (task'[c] = task[c])
          /\ (task[c].call = "request" /\ task'[c].attempt # task[c].attempt) =>
               (task[c].pc = "backoff" /\ task'[c].attempt = task[c].attempt + 1)
          /\ (task[c].pc \in {"send", "sleep429"} /\ task'[c].pc = "backoff") =>
               (/\ FailureOf(task'[c].last).exc \in {"TimeoutException", "ConnectError"}
                   \/ FailureOf(task'[c].last).status \in {429, 502, 503, 504}
                /\ task[c].attempt < retryMax)]_vars
  /\ \A c \in Callers : (task[c].call = "request") ~> (task[c].pc = "done")

\* a request that used all of its attempts, more than one
C33_Witness ==
  /\ retryMax = MaxAttempts
  /\ task[1].pc = "done"
  /\ task[1].call = "request"
  /\ task[1].attempt = MaxAttempts
  /\ task[1].httpCalls = MaxAttempts
  /\ task[1].result.kind = "HTTPStatusError"

\* ---- C34: collect_all is bounded. It makes at most
\* ceil(max_items / page_size) fetches and returns at most max_items items,
\* also when every offset has a full page; and over a collection whose size
\* is a multiple of page_size below the cap it ends on the first empty page,
\* which it does not emit.
CeilDiv(a, b) == (a + b - 1) \div b

RECURSIVE SumLen(_)
SumLen(pages) == IF pages = <<>> THEN 0 ELSE PageLen(Head(pages)) + SumLen(Tail(pages))

C40_PagesNonEmpty ==
  /\ \A k \in 1..Len(pager.pages) : PageLen(pager.pages[k]) > 0
  /\ pager.max_items.some => SumLen(pager.pages) <= pager.max_items.v

\* ---- C31: wait_for_job polls until the job is in a terminal state, the
\* terminal states being Successful, Faulted and Stopped: a final_state
\* result is returned only for one of these three, and a poll that sees any
\* other state is followed by the sleep before the next poll.
C31_TerminalStates ==
  [][(tool.name = "wait_for_job" /\ tool.pc = "poll" /\ tool'.exc = "none"
      /\ tool'.out.error = "") =>
        /\ (tool'.out.final_state # "") =>
             (tool'.out.final_state \in {"Successful", "Faulted", "Stopped"})
        /\ (tool'.state \in {"Pending", "Running", "Stopping", "Terminating",
                              "Suspended", "Resumed"}) =>
             (tool'.pc = "sleep" /\ tool'.out.kind = "none")]_vars

\* ---- C35: wait_for_job always ends. It makes at most
\* ceil(timeout_seconds / poll_interval_seconds) polls with one sleep of
\* poll_interval_seconds after each poll that did not end it; when no poll
\* saw a terminal state or an API error it returns the timeout payload, whose
\* elapsed_seconds is at least timeout_seconds; and an API error on a poll
\* ends the wait in that step.
WaitEnded == tool.pc \in {"returned", "raised"}

C35_WaitBounded ==
  tool.name = "wait_for_job" =>
    /\ tool.polls <= (tool.timeout_seconds + tool.poll_interval_seconds - 1)
                        \div tool.poll_interval_seconds
    /\ tool.elapsed = tool.sleeps * tool.poll_interval_seconds
    /\ tool.sleeps <= tool.polls
    /\ (WaitEnded /\ tool.waiting) =>
         /\ tool.pc = "returned"
         /\ tool.out.final_state = ""
         /\ tool.out.error # ""
         /\ tool.out.elapsed_seconds >= tool.timeout_seconds
         /\ tool.polls = (tool.timeout_seconds + tool.poll_interval_seconds - 1)
                            \div tool.poll_interval_seconds
    /\ (~tool.waiting /\ tool.state = "") => WaitEnded

\* ---- C32: download_and_read_package builds the download key as
\* PackageId:Version. The URL of the download request contains the package
\* id, a colon and the resolved version, and does not contain the package id,
\* a dot and the resolved version.
Contains(str, sub) ==
  \E i \in 0..(Len(str) - Len(sub)) : SubSeq(str, i + 1, i + Len(sub)) = sub

C32_ColonSeparator ==
  (tool.name = "download_and_read_package" /\ tool.url # <<>>) =>
    /\ Contains(tool.url, tool.package_id \o <<":">> \o tool.resolved_version)
    /\ ~Contains(tool.url, tool.package_id \o <<".">> \o tool.resolved_version)

\* ---- C36: a 401 only invalidates the token that was rejected. When the
\* request was sent with token T and the cache holds a newer token by the time
\* its 401 is handled, handling the 401 leaves the cache as it is.
Handles401(c) ==
  /\ task[c].pc = "send"
  /\ task'[c].pc = "done"
  /\ task'[c].result.received = 401

C36_StaleUnauthorizedKeepsNewer ==
  [][\A c \in Callers :
       (/\ Handles401(c)
        /\ cache.access_token # EmptyToken
        /\ cache.access_token > task[c].tok) => cache' = cache]_vars

\* C36 as amended: handling a 401 clears the shared cache whatever token it
\* holds, a token newer than the rejected one included; that token is then
\* among the removed ones, and the requests of the other callers, also those
\* already sent with the newer token, go on unchanged.
C36_Amended ==
  [][\A c \in Callers :
       Handles401(c) =>
         /\ cache' = CacheClear
         /\ ~IsValid(cache', now')
         /\ revoked' = revoked \cup ({cache.access_token} \ {EmptyToken})
         /\ \A d \in Callers \ {c} : task'[d] = task[d]]_vars

\* the first attempt of one request got a 401 for the token it acquired,
\* after the other request had acquired a second token and was sent with it:
\* the 401 removed the second token from the cache
C36_Witness ==
  \E c, d \in Callers :
     /\ c # d
     /\ task[c].pc = "done"
     /\ task[c].result.received = 401
     /\ task[c].attempt = 1
     /\ task[d].pc = "send"
     /\ task[d].attempt = 1
     /\ task[d].tok = 2
     /\ nextTok = 3
     /\ revoked = {2}
     /\ cache = CacheClear

\* ---- C37: a token returned by get_token of a caching variant is the cached
\* token read at an instant at which the cache was valid (fast path and
\* re-check under the lock), or the token the caller itself acquired in that
\* step while holding the lock; the cached paths never return a cleared token
\* or one past expires_at - refresh_buffer.
ReturnsToken(c) ==
  /\ task[c].pc # "done"
  /\ task'[c].pc = "done"
  /\ task'[c].result.kind = "token"

C37_ReturnedTokenValid ==
  [][\A c \in Callers :
       (authMode # "pat" /\ ReturnsToken(c)) =>
          \/ /\ task'[c].g.how \in {"fast", "recheck"}
             /\ task'[c].result.tok = cache.access_token
             /\ cache.access_token # EmptyToken
             /\ now < cache.expires_at - RefreshBuffer
             /\ cache' = cache
             /\ task'[c].g.how = "recheck" => lockHolder = c \/ task[c].pc = "idle"
          \/ /\ task'[c].g.how = "acquired"
             /\ task[c].pc = "post"
             /\ lockHolder = c
             /\ task'[c].result.tok = cache'.access_token
             /\ task'[c].result.tok \in {nextTok, EmptyToken}
             /\ task'[c].result.tok = nextTok => nextTok' = nextTok + 1]_vars

\* a caller that waited for the lock returned the token its re-check found
\* valid, while another call had acquired it
C37_Witness ==
  \E c, d \in Callers :
     /\ task[c].pc = "done"
     /\ task[c].g.how = "acquired"
     /\ task[d].pc = "done"
     /\ task[d].g.how = "recheck"
     /\ task[d].g.sawStale
     /\ task[d].result.tok = task[c].result.tok
     /\ task[d].result.tok # EmptyToken

\* ---- C38: after a successful refresh the cache is valid, for every
\* expires_in the identity server can return, so a caller that was waiting
\* for the lock reuses the refreshed token: at the instant of the refresh a
\* woken waiter does not go on to an acquisition of its own.
RefreshSucceeds(c) ==
  /\ task[c].pc = "post"
  /\ task'[c].pc = "done"
  /\ task'[c].result.kind = "token"
  /\ task'[c].result.tok # EmptyToken

C38_RefreshLeavesCacheValid ==
  [][\A c \in Callers :
       /\ RefreshSucceeds(c) => IsValid(cache', now')
       /\ (/\ WaiterStep(c)
           /\ cache.access_token # EmptyToken
           /\ lastSet.live
           /\ lastSet.t0 = now) => task'[c].pc # "post"]_vars

\* ---- C39: under fair scheduling and an authentication endpoint whose every
\* call ends, every get_token call eventually returns or raises, also when
\* earlier lock holders failed; and a call that the endpoint fails (error
\* status or network failure) ends with UiPathAuthError raised by the caller
\* that made the acquisition attempt itself while holding the lock.
InGetToken(c) == task[c].pc \in {"lock_wait", "post"}

C39_EveryCallEnds ==
  \A c \in Callers : InGetToken(c) ~> (task[c].pc = "done")

ProviderFailed(c) ==
  /\ task[c].pc = "post"
  /\ task'[c].pc = "done"
  /\ task'[c].result.kind # "token"
  /\ task'[c].result.received # 200

C39_OwnSerialAttempt ==
  [][\A c \in Callers :
       ProviderFailed(c) =>
         (/\ lockHolder = c
          /\ \A d \in Callers : d # c => task[d].pc # "post")]_vars

C39_FailureIsAuthError ==
  [][\A c \in Callers :
       ProviderFailed(c) => (task'[c].result.kind = "UiPathAuthError")]_vars

C39_GetTokenLive ==
  /\ C39_EveryCallEnds
  /\ C39_OwnSerialAttempt
  /\ C39_FailureIsAuthError

\* both callers were failed by the endpoint one after the other
C39_BothFailed ==
  /\ postCalls = 2
  /\ \A c \in Callers :
        /\ task[c].pc = "done"
        /\ task[c].result.kind # "token"
        /\ task[c].result.received # 200

====
